---- MODULE Spec2Model ----
(***************************************************************************)
(* Warehouse order dashboard (src/app.py): token issuance and             *)
(* verification, access control, and the order update with its audit log. *)
(* One Streamlit script run (one request) is one step, except in          *)
(* StepSpec, where the script runs of two sessions interleave at their     *)
(* file operations.  Time is counted in seconds.                           *)
(***************************************************************************)
EXTENDS Integers, Sequences, FiniteSets, TLC

VARIABLES
    now,          \* datetime.utcnow(), in seconds
    tokensFile,   \* tokens/tokens.csv: [exists, rows]
    ordersFile,   \* data/orders.csv: sequence of rows (after the header)
    lookupsFile,  \* data/lookups.csv: sequence of [Type, Value] rows
    logFile,      \* data/log.csv: [exists, rows]
    ordersCache,  \* st.cache_data entry of load_orders: <<>> or <<[df, at]>>
    lookupsCache, \* st.cache_data entry of load_lookups: <<>> or <<[lk, at]>>
    last,         \* what the latest step was and what the script run computed
    procs         \* per session: where its script run stands, and its locals

vars == <<now, tokensFile, ordersFile, lookupsFile, logFile,
          ordersCache, lookupsCache, last, procs>>

---------------------------------------------------------------------------
(* Bounds of the model *)

\* rows the token store may hold besides its header
MaxTokens == 2
\* horizon of the clock in the token specification, in hours
MaxHours == 2
\* horizon of the clock in the order specification, in lifetimes of the
\* order cache
MaxTtls == 1
\* records the audit log may hold besides its header
MaxLog == 2

(* Program constants *)

OWNER_KEY == "admin12345"
TTL_ORDERS == 15
TTL_LOOKUPS == 60
SecondsPerHour == 3600
HoursPerDay == 24

\* Python's None where the other values are strings
None == "None"

---------------------------------------------------------------------------
(* Timestamp cells.  A cell of a timestamp column is an ISO-8601 prefix    *)
(* (iso >= 0: the instant it denotes; -1: no ISO prefix) followed by text. *)

IsoCell(t) == [iso |-> t, text |-> "Z"]
TextCell(s) == [iso |-> -1, text |-> s]

\* s.replace("Z", "")
ReplaceZ(c) == [c EXCEPT !.text = IF c.text = "Z" THEN "" ELSE c.text]

\* datetime.fromisoformat(s): <<t>>, or <<>> when it raises ValueError
fromisoformat(c) == IF c.iso >= 0 /\ c.text = "" THEN <<c.iso>> ELSE <<>>

---------------------------------------------------------------------------
(* Token store *)

TokenHeader ==
    [token |-> "token", role |-> "role", company |-> "company",
     email |-> "email", expires_at |-> TextCell("expires_at"),
     created_at |-> TextCell("created_at")]

\* secrets.token_hex(4): 8 hex digits drawn at random, no memory of past draws
TokenHex == {"0a1b2c3d", "9f8e7d6c"}

\* open(TOKENS_FILE, "w") and the header row: whatever the file held is gone
TokensCreated == [exists |-> TRUE, rows |-> <<TokenHeader>>]

ensure_tokens_file(tf) == IF ~tf.exists THEN TokensCreated ELSE tf

\* open(TOKENS_FILE, "a") and writerow: the record goes after what the file
\* holds (the file is created when it is not there)
AppendToken(tf, token, role, company, email, expires_at, t) ==
    [exists |-> TRUE,
     rows |-> Append(tf.rows,
            [token |-> token, role |-> role, company |-> company,
             email |-> email, expires_at |-> IsoCell(expires_at),
             created_at |-> IsoCell(t)])]

\* the file after create_token(role, company, email, expires_at) drew `token`
create_token(tf, token, role, company, email, expires_at, t) ==
    AppendToken(ensure_tokens_file(tf), token, role, company, email, expires_at, t)

\* csv.DictReader: the first row names the fields, the rest are the records
DictReader(rows) == IF rows = <<>> THEN <<>> ELSE Tail(rows)

\* not token: None and "" are falsy.  A query value is <<>> or <<s>>.
Falsy(q) == q = <<>> \/ q = <<"">>

\* the cell csv.DictReader gives for a column that a short row does not
\* have: None
MissingCell == [iso |-> -2, text |-> ""]

\* an ISO text with a UTC offset: fromisoformat returns an aware datetime
IsAware(c) == c.iso >= 0 /\ c.text = "+00:00"

\* how a piece of the body of verify_token ends: by raising exc, or (exc =
\* "none") by going on with info, which is <<>> (None) or <<dict>>
Raised(exc) == [exc |-> exc, info |-> <<>>]
Returned(info) == [exc |-> "none", info |-> info]

\* the exception classes the body of verify_token can raise
BodyExceptions == {"KeyError", "AttributeError", "ValueError", "TypeError"}

\* a handler that catches ValueError only (except ValueError)
CaughtValueError(exc) == exc = "ValueError"

\* except Exception: every exception class of the body derives from Exception
Caught(exc) == exc \in BodyExceptions

\* the loop of verify_token over the records i.. of the reader
RECURSIVE VerifyScan(_, _, _, _)
VerifyScan(recs, i, token, t) ==
    IF i > Len(recs) THEN Returned(<<>>)
    ELSE IF recs[i].token = token
         THEN LET cell == recs[i].expires_at
              IN  IF cell = MissingCell
                  THEN Raised("AttributeError")       \* None.replace
                  ELSE IF fromisoformat(ReplaceZ(cell)) = <<>> /\ ~IsAware(ReplaceZ(cell))
                  THEN Raised("ValueError")           \* fromisoformat
                  ELSE IF IsAware(ReplaceZ(cell))
                  THEN Raised("TypeError")            \* naive <= aware
                  ELSE IF t <= fromisoformat(ReplaceZ(cell))[1]
                  THEN Returned(<<[role |-> recs[i].role, company |-> recs[i].company,
                                   email |-> recs[i].email]>>)
                  ELSE VerifyScan(recs, i + 1, token, t)
         ELSE VerifyScan(recs, i + 1, token, t)

\* the try block: the reader takes the first row as the field names, and
\* row["token"] raises KeyError when that row does not name a token column
VerifyBody(rows, token, t) ==
    IF Len(rows) > 1 /\ rows[1].token # TokenHeader.token
    THEN Raised("KeyError")
    ELSE VerifyScan(DictReader(rows), 1, token, t)

\* verify_token(token) as a call: whether it raised, and what it returned
verify_outcome(q, tf, t) ==
    IF Falsy(q) \/ ~tf.exists THEN [raised |-> FALSE, info |-> <<>>]
    ELSE LET r == VerifyBody(tf.rows, q[1], t)
         IN  IF r.exc = "none" THEN [raised |-> FALSE, info |-> r.info]
             ELSE IF Caught(r.exc) THEN [raised |-> FALSE, info |-> <<>>]
             ELSE [raised |-> TRUE, info |-> <<>>]

\* the value verify_token returns: <<>> (None) or <<dict>>
verify_token(q, tf, t) == verify_outcome(q, tf, t).info

---------------------------------------------------------------------------
(* Access control *)

\* a comparison that accepts every substring of the key (admin_key in OWNER_KEY)
KeyMatchesSubstring(admin_key) ==
    admin_key # <<>> /\ admin_key[1] \in {OWNER_KEY, "admin1234", ""}

\* admin_key == OWNER_KEY
KeyMatches(admin_key) == admin_key = <<OWNER_KEY>>

\* access control with the token looked at even when the owner key matched
\* (if in place of elif)
AccessControlStacked(admin_key, token_q, tf, t) ==
    IF ~Falsy(token_q) /\ verify_token(token_q, tf, t) # <<>>
    THEN [mode |-> "client", client_role |-> verify_token(token_q, tf, t)[1].role]
    ELSE IF KeyMatches(admin_key)
         THEN [mode |-> "owner", client_role |-> None]
         ELSE [mode |-> None, client_role |-> None]

AccessControl(admin_key, token_q, tf, t) ==
    IF KeyMatches(admin_key)
    THEN [mode |-> "owner", client_role |-> None]
    ELSE IF ~Falsy(token_q) /\ verify_token(token_q, tf, t) # <<>>
         THEN [mode |-> "client", client_role |-> verify_token(token_q, tf, t)[1].role]
         ELSE [mode |-> None, client_role |-> None]

---------------------------------------------------------------------------
(* Order store and lookups: pandas reading and writing CSV *)

\* cells that pandas.read_csv reads as NaN (its default na_values), among
\* the cells of the model
NaStrings == {"", "nan"}

\* a cell of a data frame is <<>> (NaN / NaT) or <<value>>
ReadCell(s) == IF s \in NaStrings THEN <<>> ELSE <<s>>
\* DataFrame.to_csv writes NaN as the empty field
WriteCell(c) == IF c = <<>> THEN "" ELSE c[1]
\* str(value): str(float("nan")) is "nan"
Str(c) == IF c = <<>> THEN "nan" ELSE c[1]

\* pd.to_datetime(..., errors="coerce"): NaT for what does not parse
to_datetime(c) == fromisoformat(c)
\* to_csv of a datetime64 cell
WriteDate(d) == IF d = <<>> THEN TextCell("") ELSE [iso |-> d[1], text |-> ""]

read_csv(file) ==
    [i \in 1..Len(file) |->
        [OrderID |-> ReadCell(file[i].OrderID), Warehouse |-> ReadCell(file[i].Warehouse),
         Status |-> ReadCell(file[i].Status), InvoiceNo |-> ReadCell(file[i].InvoiceNo),
         OrderDate |-> to_datetime(file[i].OrderDate),
         UpdatedBy |-> ReadCell(file[i].UpdatedBy), UpdatedAt |-> file[i].UpdatedAt]]

\* save_orders(df): the whole table replaces the file
save_orders(df) ==
    [i \in 1..Len(df) |->
        [OrderID |-> WriteCell(df[i].OrderID), Warehouse |-> WriteCell(df[i].Warehouse),
         Status |-> WriteCell(df[i].Status), InvoiceNo |-> WriteCell(df[i].InvoiceNo),
         OrderDate |-> WriteDate(df[i].OrderDate),
         UpdatedBy |-> WriteCell(df[i].UpdatedBy), UpdatedAt |-> df[i].UpdatedAt]]

\* st.cache_data(ttl): an entry is served until ttl seconds after it was stored
CacheHit(cache, ttl, t) == cache # <<>> /\ t - cache[1].at < ttl

\* load_orders(): the value returned and the cache afterwards
load_orders(cache, file, t) ==
    IF CacheHit(cache, TTL_ORDERS, t)
    THEN [df |-> cache[1].val, cache |-> cache]
    ELSE [df |-> read_csv(file), cache |-> <<[val |-> read_csv(file), at |-> t]>>]

load_lookups(cache, file, t) ==
    IF CacheHit(cache, TTL_LOOKUPS, t)
    THEN [lk |-> cache[1].val, cache |-> cache]
    ELSE [lk |-> file, cache |-> <<[val |-> file, at |-> t]>>]

\* lk[lk["Type"] == "Status"]["Value"].tolist(), as the set of its entries
Statuses(lk) == {lk[i].Value : i \in {j \in 1..Len(lk) : lk[j].Type = "Status"}}

---------------------------------------------------------------------------
(* Audit log *)

LogHeader ==
    [Timestamp |-> TextCell("Timestamp"), User |-> "User", Warehouse |-> "Warehouse",
     OrderID |-> "OrderID", FromStatus |-> "FromStatus", ToStatus |-> "ToStatus",
     FromInvoice |-> "FromInvoice", ToInvoice |-> "ToInvoice"]

\* lines 40-50: open(LOG_FILE, "a"), the header if `exists` was false, the row
WriteLog(lf, exists, row) ==
    [exists |-> TRUE,
     rows |-> IF ~exists THEN lf.rows \o <<LogHeader, row>> ELSE Append(lf.rows, row)]

append_log(lf, row) == WriteLog(lf, lf.exists, row)

\* the records of the log, after its header
LogRecords(lf) == IF lf.rows = <<>> THEN <<>> ELSE Tail(lf.rows)

---------------------------------------------------------------------------
(* The forms of the warehouse tabs and the update *)

\* sorted(df["Warehouse"].unique()): the warehouses of the model in sorted order
WhOrder == <<"WH-A", "WH-B">>

WhIndex(w) == CHOOSE i \in 1..Len(WhOrder) : WhOrder[i] = w

WarehousesOf(df) == {w \in {WhOrder[i] : i \in 1..Len(WhOrder)} :
                        \E i \in 1..Len(df) : df[i].Warehouse = <<w>>}

\* df[df["Warehouse"] == wh]
Sub(df, w) == SelectSeq(df, LAMBDA r : r.Warehouse = <<w>>)

\* sub.loc[sub["OrderID"] == order_id, col].iloc[0]
SubRow(df, w, order_id) ==
    LET sub == Sub(df, w)
    IN  sub[CHOOSE i \in 1..Len(sub) :
                /\ sub[i].OrderID = <<order_id>>
                /\ \A j \in 1..(i - 1) : sub[j].OrderID # <<order_id>>]

\* the order a form's selectbox holds: the submitted one, else its first option
Selected(df, w, form) ==
    IF form # <<>> /\ form[1].wh = w THEN form[1].order_id
    ELSE Sub(df, w)[1].OrderID[1]

\* statuses.index(cur_status) raises ValueError when the order's status is
\* not in the list
FormRaises(df, statuses, w, form) ==
    LET cur == SubRow(df, w, Selected(df, w, form)).Status
    IN  cur = <<>> \/ cur[1] \notin statuses

\* the loop over the tabs stops at the first form that raises
RaisesUpTo(df, statuses, w, form) ==
    \E w2 \in WarehousesOf(df) :
        WhIndex(w2) <= WhIndex(w) /\ FormRaises(df, statuses, w2, form)

\* st.form_submit_button("Update", disabled=...): returns the widget state the
\* client sent; `disabled` only tells the browser how to draw the button
form_submit_button(clicked, disabled) == clicked

\* "owner" if mode == "owner" else client_role
ActorLabel(mode, client_role) == IF mode = "owner" THEN "owner" ELSE client_role

\* df.index[df["OrderID"] == order_id]
Idx(df, order_id) == {i \in 1..Len(df) : df[i].OrderID = <<order_id>>}

\* idx[0]
First(idx) == CHOOSE i \in idx : \A j \in idx : i <= j

\* lines 179-185: the row i0 of df rewritten in place
UpdateRow(df, i0, new_status, new_invoice, label, t) ==
    [df EXCEPT ![i0] = [@ EXCEPT !.Status = <<new_status>>,
                                 !.InvoiceNo = <<new_invoice>>,
                                 !.UpdatedBy = <<label>>,
                                 !.UpdatedAt = IsoCell(t)]]

\* the record handed to append_log
LogRow(df, i0, wh, order_id, new_status, new_invoice, label, t) ==
    [Timestamp |-> IsoCell(t), User |-> label, Warehouse |-> wh,
     OrderID |-> order_id, FromStatus |-> Str(df[i0].Status),
     ToStatus |-> new_status, FromInvoice |-> Str(df[i0].InvoiceNo),
     ToInvoice |-> new_invoice]

---------------------------------------------------------------------------
(* Inputs of a request *)

\* ?admin=...: missing, empty, the key, and near misses of it
AdminKeys == {<<>>, <<"">>, <<OWNER_KEY>>, <<"admin1234">>}

\* ?token=...: missing, empty, or a code
TokenQs == {<<>>, <<"">>} \cup {<<c>> : c \in TokenHex}

\* the sidebar of token_manager_ui: company and e-mail, role, expiry
Scopes == {[company |-> "Client Warehouse Co.", email |-> ""],
           [company |-> "Acme Ltd", email |-> "ops@acme.test"]}
Roles == {"editor", "viewer"}
ExpiryUnits == {"hours", "days"}
ExpiryAmounts == {1}

\* "Generate Token & Link" pressed with these widget values; token is the
\* code secrets.token_hex draws
GenInputs(codes, roles, scopes, units) ==
    {<<[token |-> c, role |-> r, company |-> sc.company, email |-> sc.email,
        unit |-> u, amount |-> a]>> :
        c \in codes, r \in roles, sc \in scopes, u \in units, a \in ExpiryAmounts}

\* timedelta(hours=amount) if unit == "hours" else timedelta(days=amount)
Delta(unit, amount) ==
    IF unit = "hours" THEN amount * SecondsPerHour
    ELSE amount * HoursPerDay * SecondsPerHour

\* what the user may type as invoice number, besides leaving the default
InvoiceInputs == {""}

\* the widget values the form of warehouse w can be submitted with: an order
\* of the tab, a status of the list, and the invoice text (by default the
\* str() of the order's invoice number)
FormsOf(df, statuses, w) ==
    UNION {
        {<<[wh |-> w, order_id |-> Sub(df, w)[k].OrderID[1], new_status |-> s,
            new_invoice |-> inv]>> :
            s \in statuses,
            inv \in InvoiceInputs \cup {Str(Sub(df, w)[k].InvoiceNo)}} :
        k \in 1..Len(Sub(df, w))}

\* the submitted form: <<>> (no form submitted) or the values of one form
Forms(df, statuses) ==
    {<<>>} \cup UNION {FormsOf(df, statuses, w) : w \in WarehousesOf(df)}

---------------------------------------------------------------------------
(* One script run *)

Idle(kind) ==
    [kind |-> kind, admin_key |-> <<>>, token_q |-> <<>>, mode |-> None,
     client_role |-> None, manager |-> FALSE, issued |-> <<>>, form |-> <<>>,
     result |-> "none"]

\* lines 174-198, for the form submitted in this run; lo and ll are what
\* load_orders and load_lookups returned
Transaction(ac, lo, ll, form, req) ==
    LET df == lo.df
        f == form[1]
        idx == Idx(df, f.order_id)
        i0 == First(idx)
        label == ActorLabel(ac.mode, ac.client_role)
    IN  IF idx = {}
        THEN /\ last' = [req EXCEPT !.result = "not_found"]
             /\ ordersCache' = lo.cache
             /\ lookupsCache' = ll.cache
             /\ UNCHANGED <<ordersFile, logFile>>
        ELSE /\ ordersFile' = save_orders(
                    UpdateRow(df, i0, f.new_status, f.new_invoice, label, now))
             /\ logFile' = append_log(logFile,
                    LogRow(df, i0, f.wh, f.order_id, f.new_status, f.new_invoice,
                           label, now))
             /\ ordersCache' = <<>>                 \* st.cache_data.clear()
             /\ lookupsCache' = <<>>
             /\ last' = [req EXCEPT !.result = "updated"]

\* lines 145-198: the tabs, their forms, and the update of the submitted one
Main(ac, form, req) ==
    LET lo == load_orders(ordersCache, ordersFile, now)
        ll == load_lookups(lookupsCache, lookupsFile, now)
        df == lo.df
        statuses == Statuses(ll.lk)
        disable_update == ac.mode = "client" /\ ac.client_role = "viewer"
        ok == form_submit_button(form # <<>>, disable_update)
    IN  /\ form \in Forms(df, statuses)
        /\ IF ok /\ ~RaisesUpTo(df, statuses, form[1].wh, form)
           THEN Transaction(ac, lo, ll, form, [req EXCEPT !.form = form])
           ELSE /\ last' = [req EXCEPT !.form = form, !.result =
                        IF \E w \in WarehousesOf(df) : FormRaises(df, statuses, w, form)
                        THEN "crash" ELSE "rendered"]
                /\ ordersCache' = lo.cache
                /\ lookupsCache' = ll.cache
                /\ UNCHANGED <<ordersFile, logFile>>

\* a sidebar that offers the token manager to every authorized request
TokenManagerForAll(mode) == mode # None

\* if mode == "owner": token_manager_ui()
TokenManagerShown(mode) == mode = "owner"

\* a script that goes on after "Access denied"
NeverStops(mode) == FALSE

\* if mode is None: ... st.stop()
Stops(mode) == mode = None

\* the whole script for one request: access control, the owner's token
\* manager, then the dashboard
RunScript(admin_key, token_q, gen, form, tokLimit) ==
    LET ac == AccessControl(admin_key, token_q, tokensFile, now)
        req == [kind |-> "request", admin_key |-> admin_key, token_q |-> token_q,
                mode |-> ac.mode, client_role |-> ac.client_role,
                manager |-> TokenManagerShown(ac.mode),
                issued |-> gen, form |-> <<>>, result |-> "none"]
    IN  IF Stops(ac.mode)
        THEN \* nothing after st.stop() runs
             /\ gen = <<>> /\ form = <<>>
             /\ last' = [req EXCEPT !.result = "denied"]
             /\ UNCHANGED <<now, tokensFile, ordersFile, lookupsFile, logFile,
                            ordersCache, lookupsCache, procs>>
        ELSE /\ gen # <<>> =>
                    /\ TokenManagerShown(ac.mode)  \* the button exists in this run
                    /\ ~tokensFile.exists \/ Len(tokensFile.rows) <= tokLimit
             /\ form # <<>> => Len(LogRecords(logFile)) < MaxLog
             /\ tokensFile' =
                    IF gen = <<>> THEN tokensFile
                    ELSE create_token(tokensFile, gen[1].token, gen[1].role,
                                      gen[1].company, gen[1].email,
                                      now + Delta(gen[1].unit, gen[1].amount), now)
             /\ Main(ac, form, req)
             /\ UNCHANGED <<now, lookupsFile, procs>>

\* the sessions whose script runs interleave (Streamlit runs each session's
\* script in a thread of its own)
Sessions == {"s1", "s2"}

\* a session between script runs
IdleProc == [pc |-> "idle", seen |-> FALSE, gen |-> <<>>, upd |-> <<>>]

---------------------------------------------------------------------------
(* The environment: the clock, and the files other programs maintain *)

Advance(d, limit) ==
    /\ now + d <= limit
    /\ now' = now + d
    /\ last' = Idle("env")
    /\ UNCHANGED <<tokensFile, ordersFile, lookupsFile, logFile, ordersCache,
                   lookupsCache, procs>>

Order1 ==
    [OrderID |-> "ORD-001", Warehouse |-> "WH-A", Status |-> "Open",
     InvoiceNo |-> "", OrderDate |-> [iso |-> 0, text |-> ""],
     UpdatedBy |-> "", UpdatedAt |-> TextCell("")]
Order2 ==
    [OrderID |-> "ORD-002", Warehouse |-> "WH-B", Status |-> "Invoiced",
     InvoiceNo |-> "INV-100", OrderDate |-> [iso |-> 0, text |-> ""],
     UpdatedBy |-> "", UpdatedAt |-> TextCell("")]

\* the order files a bulk import may put in place
ImportFiles ==
    {<<Order1, Order2>>,
     <<[Order1 EXCEPT !.Status = "Invoiced", !.InvoiceNo = "INV-300"]>>}

Lookups0 ==
    <<[Type |-> "Status", Value |-> "Open"], [Type |-> "Status", Value |-> "Invoiced"],
      [Type |-> "Warehouse", Value |-> "WH-A"]>>
Lookups1 ==
    <<[Type |-> "Status", Value |-> "Open"], [Type |-> "Status", Value |-> "Closed"],
      [Type |-> "Warehouse", Value |-> "WH-A"]>>

\* the vocabularies an edit of lookups.csv may put in place
LookupFiles == {Lookups0, Lookups1}

\* a bulk import replaces data/orders.csv
ExternalImport ==
    \E f \in ImportFiles :
        /\ f # ordersFile
        /\ ordersFile' = f
        /\ last' = Idle("env")
        /\ UNCHANGED <<now, tokensFile, lookupsFile, logFile, ordersCache, lookupsCache,
                       procs>>

\* the status vocabulary is edited in data/lookups.csv
ExternalEditLookups ==
    \E l \in LookupFiles :
        /\ l # lookupsFile
        /\ lookupsFile' = l
        /\ last' = Idle("env")
        /\ UNCHANGED <<now, tokensFile, ordersFile, logFile, ordersCache, lookupsCache,
                       procs>>

---------------------------------------------------------------------------
(* Specifications *)

Init ==
    /\ now = 0
    /\ tokensFile = [exists |-> FALSE, rows |-> <<>>]
    /\ ordersFile = <<Order1, Order2>>
    /\ lookupsFile = Lookups0
    /\ logFile = [exists |-> FALSE, rows |-> <<>>]
    /\ ordersCache = <<>>
    /\ lookupsCache = <<>>
    /\ last = Idle("init")
    /\ procs = [s \in Sessions |-> IdleProc]

\* the owner opens the dashboard and generates a token
IssueToken ==
    \E gen \in GenInputs(TokenHex, Roles, Scopes, ExpiryUnits) :
        RunScript(<<OWNER_KEY>>, <<>>, gen, <<>>, MaxTokens)

\* somebody opens the dashboard with a token code
PresentToken ==
    \E token_q \in {<<c>> : c \in TokenHex} :
        RunScript(<<>>, token_q, <<>>, <<>>, MaxTokens)

TickHour == Advance(SecondsPerHour, MaxHours * SecondsPerHour)

Next == IssueToken \/ PresentToken \/ TickHour

\* issuing tokens and verifying them as they expire
Spec == Init /\ [][Next]_vars

\* a request with any combination of owner key and token, which presses
\* "Generate Token & Link" if the run offers it
AccessRequest ==
    \E admin_key \in AdminKeys, token_q \in TokenQs :
        \E gen \in {<<>>} \cup
                   (IF admin_key # <<OWNER_KEY>> \/ token_q = <<>>
                    THEN GenInputs(TokenHex, Roles,
                                   {[company |-> "Client Warehouse Co.", email |-> ""]},
                                   {"hours"})
                    ELSE {}) :
            RunScript(admin_key, token_q, gen, <<>>, MaxTokens)

AccessNext == AccessRequest \/ TickHour

\* access control over every credential a request may present
AccessSpec == Init /\ [][AccessNext]_vars

\* a request of the owner (or without credentials) that may submit a form
OrderRequest ==
    \E admin_key \in {<<>>, <<OWNER_KEY>>} :
        \E form \in Forms(load_orders(ordersCache, ordersFile, now).df,
                          Statuses(load_lookups(lookupsCache, lookupsFile, now).lk)) :
            RunScript(admin_key, <<>>, <<>>, form, 0)

TickTtl == Advance(TTL_ORDERS, MaxTtls * TTL_ORDERS)

OrderNext == OrderRequest \/ ExternalImport \/ ExternalEditLookups \/ TickTtl

\* the owner updating orders under the caches, with the files changing
\* underneath
OrderSpec == Init /\ [][OrderNext]_vars

ClientCode == CHOOSE c \in TokenHex : TRUE

\* the owner issues a token
IssueRequest ==
    \E gen \in GenInputs({ClientCode}, Roles,
                         {[company |-> "Client Warehouse Co.", email |-> ""]}, {"hours"}) :
        RunScript(<<OWNER_KEY>>, <<>>, gen, <<>>, 1)

\* a request that presents a token and may submit a form
ClientRequest ==
    \E form \in Forms(load_orders(ordersCache, ordersFile, now).df,
                      Statuses(load_lookups(lookupsCache, lookupsFile, now).lk)) :
        RunScript(<<>>, <<ClientCode>>, <<>>, form, 1)

ClientNext == IssueRequest \/ ClientRequest

\* token holders updating orders
ClientSpec == Init /\ [][ClientNext]_vars

---------------------------------------------------------------------------
(* The owner's sessions running at the same time.  A script run is cut at  *)
(* its file operations: each os.path.exists, each open ... close, and      *)
(* st.cache_data.clear() is a step of its own.                             *)

\* the sessions that stand at one of these places
InFlight(pcs) == Cardinality({s \in Sessions : procs[s].pc \in pcs})

\* "Generate Token & Link" pressed in an owner's session: create_token calls
\* ensure_tokens_file, which looks whether the file is there
TokenCheck(s) ==
    \E gen \in GenInputs(TokenHex, {"editor"},
                         {[company |-> "Client Warehouse Co.", email |-> ""]}, {"hours"}) :
        /\ procs[s].pc = "idle"
        /\ TokenManagerShown(AccessControl(<<OWNER_KEY>>, <<>>, tokensFile, now).mode)
        /\ Len(tokensFile.rows) + InFlight({"token_create", "token_append"}) <= MaxTokens
        /\ procs' = [procs EXCEPT ![s] =
                [IdleProc EXCEPT !.pc = IF tokensFile.exists THEN "token_append"
                                        ELSE "token_create",
                                 !.seen = tokensFile.exists, !.gen = gen]]
        /\ last' = Idle("step")
        /\ UNCHANGED <<now, tokensFile, ordersFile, lookupsFile, logFile, ordersCache,
                       lookupsCache>>

\* ensure_tokens_file did not see the file: it opens it for writing and
\* writes the header
TokenCreate(s) ==
    /\ procs[s].pc = "token_create"
    /\ tokensFile' = TokensCreated
    /\ procs' = [procs EXCEPT ![s].pc = "token_append"]
    /\ last' = Idle("step")
    /\ UNCHANGED <<now, ordersFile, lookupsFile, logFile, ordersCache, lookupsCache>>

\* create_token draws the code and appends the record
TokenAppend(s) ==
    LET g == procs[s].gen[1]
    IN  /\ procs[s].pc = "token_append"
        /\ tokensFile' = AppendToken(tokensFile, g.token, g.role, g.company, g.email,
                                     now + Delta(g.unit, g.amount), now)
        /\ procs' = [procs EXCEPT ![s] = IdleProc]
        /\ last' = Idle("step")
        /\ UNCHANGED <<now, ordersFile, lookupsFile, logFile, ordersCache, lookupsCache>>

\* a form submitted in an owner's session: the script loads the tables,
\* draws the forms and rewrites the row in its data frame (lines 117-185)
UpdateLoad(s) ==
    LET ac == AccessControl(<<OWNER_KEY>>, <<>>, tokensFile, now)
        lo == load_orders(ordersCache, ordersFile, now)
        ll == load_lookups(lookupsCache, lookupsFile, now)
        df == lo.df
        statuses == Statuses(ll.lk)
        label == ActorLabel(ac.mode, ac.client_role)
    IN  \E form \in Forms(df, statuses) \ {<<>>} :
            LET f == form[1]
                idx == Idx(df, f.order_id)
                i0 == First(idx)
            IN  /\ procs[s].pc = "idle"
                /\ ~Stops(ac.mode)
                /\ form_submit_button(TRUE, ac.mode = "client" /\ ac.client_role = "viewer")
                /\ ~RaisesUpTo(df, statuses, f.wh, form)
                /\ idx # {}
                /\ Len(LogRecords(logFile))
                        + InFlight({"save", "log_check", "log_write"}) < MaxLog
                /\ ordersCache' = lo.cache
                /\ lookupsCache' = ll.cache
                /\ procs' = [procs EXCEPT ![s] =
                        [IdleProc EXCEPT !.pc = "save",
                            !.upd = <<[form |-> f,
                                       df |-> UpdateRow(df, i0, f.new_status, f.new_invoice,
                                                        label, now),
                                       row |-> LogRow(df, i0, f.wh, f.order_id, f.new_status,
                                                      f.new_invoice, label, now)]>>]]
                /\ last' = Idle("step")
                /\ UNCHANGED <<now, tokensFile, ordersFile, lookupsFile, logFile>>

\* save_orders(df)
UpdateSave(s) ==
    /\ procs[s].pc = "save"
    /\ ordersFile' = save_orders(procs[s].upd[1].df)
    /\ procs' = [procs EXCEPT ![s].pc = "log_check"]
    /\ last' = Idle("step")
    /\ UNCHANGED <<now, tokensFile, lookupsFile, logFile, ordersCache, lookupsCache>>

\* append_log: exists = os.path.exists(LOG_FILE)
LogCheck(s) ==
    /\ procs[s].pc = "log_check"
    /\ procs' = [procs EXCEPT ![s].pc = "log_write", ![s].seen = logFile.exists]
    /\ last' = Idle("step")
    /\ UNCHANGED <<now, tokensFile, ordersFile, lookupsFile, logFile, ordersCache,
                   lookupsCache>>

\* append_log: the file is opened for appending and written
LogWrite(s) ==
    /\ procs[s].pc = "log_write"
    /\ logFile' = WriteLog(logFile, procs[s].seen, procs[s].upd[1].row)
    /\ procs' = [procs EXCEPT ![s].pc = "clear"]
    /\ last' = Idle("step")
    /\ UNCHANGED <<now, tokensFile, ordersFile, lookupsFile, ordersCache, lookupsCache>>

\* append_log: open(LOG_FILE, "a") raises OSError (the file is locked or not
\* writable, the disk is full); the exception ends the script run
LogFails(s) ==
    /\ procs[s].pc = "log_write"
    /\ procs' = [procs EXCEPT ![s] = IdleProc]
    /\ last' = Idle("step")
    /\ UNCHANGED <<now, tokensFile, ordersFile, lookupsFile, logFile, ordersCache,
                   lookupsCache>>

\* st.cache_data.clear(), the last statement of the update
CacheClear(s) ==
    /\ procs[s].pc = "clear"
    /\ ordersCache' = <<>>
    /\ lookupsCache' = <<>>
    /\ procs' = [procs EXCEPT ![s] = IdleProc]
    /\ last' = Idle("step")
    /\ UNCHANGED <<now, tokensFile, ordersFile, lookupsFile, logFile>>

StepNext ==
    \E s \in Sessions :
        \/ TokenCheck(s) \/ TokenCreate(s) \/ TokenAppend(s)
        \/ UpdateLoad(s) \/ UpdateSave(s) \/ LogCheck(s) \/ LogWrite(s)
        \/ LogFails(s) \/ CacheClear(s)

\* two sessions of the owner issuing tokens and updating orders at once
StepSpec == Init /\ [][StepNext]_vars

---------------------------------------------------------------------------
(* verify_token over token stores as a hand edit or a damaged write may    *)
(* leave them.                                                             *)

\* a record as create_token writes it
GoodRow(c, exp) ==
    [token |-> c, role |-> "editor", company |-> "Client Warehouse Co.", email |-> "",
     expires_at |-> IsoCell(exp), created_at |-> IsoCell(0)]

\* the rows a store may hold for the code c: a record expiring after one
\* hour, a row that ends after the code, a row whose expires_at is no date,
\* and a row whose expires_at carries a UTC offset
RowsFor(c) ==
    {GoodRow(c, SecondsPerHour),
     [token |-> c, role |-> None, company |-> None, email |-> None,
      expires_at |-> MissingCell, created_at |-> MissingCell],
     [GoodRow(c, SecondsPerHour) EXCEPT !.expires_at = TextCell("tomorrow")],
     [GoodRow(c, SecondsPerHour) EXCEPT
        !.expires_at = [iso |-> SecondsPerHour, text |-> "+00:00"]]}

\* the sequences over S of length up to n
SeqsUpTo(S, n) == UNION {[1..k -> S] : k \in 0..n}

\* tokens.csv: missing, empty, without its header row, or the header and rows
TokenStores ==
    {[exists |-> FALSE, rows |-> <<>>]} \cup
    {[exists |-> TRUE, rows |-> h \o r] :
        h \in {<<>>, <<TokenHeader>>},
        r \in SeqsUpTo(UNION {RowsFor(c) : c \in TokenHex}, MaxTokens)}

VerifyInit ==
    /\ now \in {h * SecondsPerHour : h \in 0..MaxHours}
    /\ tokensFile \in TokenStores
    /\ ordersFile = <<Order1, Order2>>
    /\ lookupsFile = Lookups0
    /\ logFile = [exists |-> FALSE, rows |-> <<>>]
    /\ ordersCache = <<>>
    /\ lookupsCache = <<>>
    /\ last = Idle("init")
    /\ procs = [s \in Sessions |-> IdleProc]

\* verify_token(token_q) is called
VerifyCall ==
    \E token_q \in TokenQs :
        /\ last' = [kind |-> "verify", token_q |-> token_q,
                    raised |-> verify_outcome(token_q, tokensFile, now).raised,
                    info |-> verify_outcome(token_q, tokensFile, now).info]
        /\ UNCHANGED <<now, tokensFile, ordersFile, lookupsFile, logFile, ordersCache,
                       lookupsCache, procs>>

VerifyNext == VerifyCall

\* verify_token called with every code on every store
VerifySpec == VerifyInit /\ [][VerifyNext]_vars

---------------------------------------------------------------------------
(* Properties of token issuance and verification (Spec) *)

\* the records of the token store, after its header
TokenRecords == DictReader(tokensFile.rows)

\* the instant a record expires, <<>> if its expires_at does not parse
ExpiresAt(rec) == fromisoformat(ReplaceZ(rec.expires_at))

\* C1: verifying the code of the token a request has just issued, at the time
\* of issuance, returns that token's role, company and email.
C1_VerifyAfterIssue ==
    (last.kind = "request" /\ last.issued # <<>>) =>
        verify_token(<<last.issued[1].token>>, tokensFile, now) =
            <<[role |-> last.issued[1].role, company |-> last.issued[1].company,
               email |-> last.issued[1].email]>>

\* C2: for every record T of the token store, once the clock is past
\* T's expiry, verifying T's code returns None.
C2_ExpiredNeverVerifies ==
    \A i \in 1..Len(TokenRecords) :
        (ExpiresAt(TokenRecords[i]) # <<>> /\ now > ExpiresAt(TokenRecords[i])[1]) =>
            verify_token(<<TokenRecords[i].token>>, tokensFile, now) = <<>>

\* C8: the codes of the records of the token store are pairwise distinct.
C8_CodesDistinct ==
    \A i, j \in 1..Len(TokenRecords) :
        i # j => TokenRecords[i].token # TokenRecords[j].token

---------------------------------------------------------------------------
(* Properties of access control (AccessSpec) *)

\* what verify_token answers for the token of the latest request
LastInfo == verify_token(last.token_q, tokensFile, now)

\* C5: a request is the owner's exactly when its admin parameter is the
\* configured key; any other request does not get the token manager, issues
\* no token, and is a client exactly when its token verifies, with the role
\* of that token.
C5_OwnerIffExactKey ==
    last.kind = "request" =>
        /\ last.mode = "owner" <=> last.admin_key = <<OWNER_KEY>>
        /\ last.admin_key # <<OWNER_KEY>> =>
            /\ ~last.manager
            /\ last.issued = <<>>
            /\ last.mode = "client" <=> LastInfo # <<>>
            /\ last.mode = "client" => last.client_role = LastInfo[1].role

\* a request with a near miss of the key and a valid token was served as a
\* client
C5_Witness ==
    /\ last.kind = "request"
    /\ last.admin_key = <<"admin1234">>
    /\ last.mode = "client"

\* C10: a request resolves to exactly one of owner, editor, viewer, none:
\* owner when the key matches, whatever token comes with it; otherwise the
\* role verify_token returns, which is editor or viewer; otherwise none.
C10_ExactlyOneRole ==
    last.kind = "request" =>
        /\ \/ last.mode = "owner" /\ last.client_role = None
           \/ last.mode = "client" /\ last.client_role \in {"editor", "viewer"}
           \/ last.mode = None /\ last.client_role = None
        /\ last.admin_key = <<OWNER_KEY>> => last.mode = "owner"
        /\ (last.admin_key # <<OWNER_KEY>> /\ LastInfo # <<>>) =>
                last.mode = "client" /\ last.client_role = LastInfo[1].role
        /\ (last.admin_key # <<OWNER_KEY>> /\ LastInfo = <<>>) => last.mode = None

\* the owner key came together with a token that verifies, and the request
\* was the owner's
C10_Witness ==
    /\ last.kind = "request"
    /\ last.admin_key = <<OWNER_KEY>>
    /\ LastInfo # <<>>
    /\ last.mode = "owner"

---------------------------------------------------------------------------
(* Properties of the order update *)

\* the rows of the order store with this order id
StoreRows(file, order_id) == {i \in 1..Len(file) : file[i].OrderID = order_id}

\* the first row of the order store with this order id
StoreRow(file, order_id) == file[First(StoreRows(file, order_id))]

\* the latest step ran the update of a submitted form to its end
Updated(l) == l.kind = "request" /\ l.result = "updated"

\* C3 (ClientSpec): a request under a viewer token changes neither the order
\* store nor the audit log.
C3_ViewerNeverWrites ==
    [][(last'.kind = "request" /\ last'.mode = "client" /\ last'.client_role = "viewer")
        => (ordersFile' = ordersFile /\ logFile' = logFile)]_vars

\* C4 (OrderSpec): a successful update of an order of the store appends one
\* record; its From values are the status and invoice number the store held
\* before the call, its To values are the requested ones, which the store
\* holds afterwards.
C4_AuditMatchesStore ==
    [][(Updated(last') /\ StoreRows(ordersFile, last'.form[1].order_id) # {}) =>
        LET f == last'.form[1]
            recs == LogRecords(logFile')
            rec == recs[Len(recs)]
            pre == StoreRow(ordersFile, f.order_id)
            post == StoreRow(ordersFile', f.order_id)
        IN  /\ Len(recs) = Len(LogRecords(logFile)) + 1
            /\ rec.FromStatus = pre.Status
            /\ rec.FromInvoice = pre.InvoiceNo
            /\ rec.ToStatus = f.new_status /\ rec.ToInvoice = f.new_invoice
            /\ post.Status = f.new_status /\ post.InvoiceNo = f.new_invoice]_vars

\* C6 (OrderSpec): when an update is followed at once by an update with the
\* same order, status and invoice number, the second record's From values are
\* the first record's To values, both have the same To values, and the
\* order's status and invoice number in the store are unchanged by the second.
C6_RepeatedUpdate ==
    [][(Updated(last) /\ Updated(last') /\ last'.form = last.form) =>
        LET f == last'.form[1]
            recs == LogRecords(logFile')
            n == Len(recs)
        IN  /\ n = Len(LogRecords(logFile)) + 1
            /\ recs[n].FromStatus = recs[n - 1].ToStatus
            /\ recs[n].FromInvoice = recs[n - 1].ToInvoice
            /\ recs[n].ToStatus = recs[n - 1].ToStatus
            /\ recs[n].ToInvoice = recs[n - 1].ToInvoice
            /\ StoreRow(ordersFile', f.order_id).Status =
                    StoreRow(ordersFile, f.order_id).Status
            /\ StoreRow(ordersFile', f.order_id).InvoiceNo =
                    StoreRow(ordersFile, f.order_id).InvoiceNo]_vars

\* C7 (OrderSpec): an update for an order id that the store does not hold at
\* the time of the call ends as not found, appends nothing to the log and
\* leaves the store as it was.
C7_MissingOrderRejected ==
    [][(last'.kind = "request" /\ last'.result \in {"updated", "not_found"}
        /\ StoreRows(ordersFile, last'.form[1].order_id) = {}) =>
            /\ last'.result = "not_found"
            /\ logFile' = logFile
            /\ ordersFile' = ordersFile]_vars

\* C9 (OrderSpec): an update whose status is not in the vocabulary that the
\* lookup store holds at the time of the call writes nothing.
C9_StatusInVocabulary ==
    [][(last'.kind = "request" /\ last'.form # <<>>
        /\ last'.form[1].new_status \notin Statuses(lookupsFile)) =>
            (ordersFile' = ordersFile /\ logFile' = logFile)]_vars

---------------------------------------------------------------------------
(* Properties of the request as a whole (AccessSpec) *)

\* C11: a request that is not the owner's leaves the token store as it was
\* and issues nothing; the token store changes only in a request of the owner.
C11_OnlyOwnerIssues ==
    [][/\ (last'.kind = "request" /\ last'.mode # "owner") =>
            (tokensFile' = tokensFile /\ last'.issued = <<>>)
       /\ tokensFile' # tokensFile =>
            (last'.kind = "request" /\ last'.mode = "owner")]_vars

\* an editor's request was served while the token store held tokens
C11_Witness ==
    /\ last.kind = "request"
    /\ last.mode = "client" /\ last.client_role = "editor"
    /\ last.issued = <<>>
    /\ Len(TokenRecords) >= 1

\* C18: a request that resolves to no access ends as denied and leaves the
\* order store, the audit log, the token store and both caches (nothing was
\* loaded) as they were.
C18_DeniedIsTerminal ==
    [][(last'.kind = "request" /\ last'.mode = None) =>
        /\ last'.result = "denied"
        /\ UNCHANGED <<ordersFile, logFile, tokensFile, ordersCache, lookupsCache>>]_vars

\* a request with the code of an expired token was denied
C18_Witness ==
    /\ last.kind = "request" /\ last.result = "denied"
    /\ ~Falsy(last.token_q)
    /\ \E i \in 1..Len(TokenRecords) :
        /\ TokenRecords[i].token = last.token_q[1]
        /\ ExpiresAt(TokenRecords[i]) # <<>>
        /\ now > ExpiresAt(TokenRecords[i])[1]

---------------------------------------------------------------------------
(* Frame of the order update (OrderSpec) *)

\* the order ids of the order store
StoreIds(file) == {file[i].OrderID : i \in 1..Len(file)}

\* C14: a successful update leaves the set of order ids of the store as it
\* was, leaves every row of another order as it was, and changes nothing of
\* its own row but Status, InvoiceNo, UpdatedBy and UpdatedAt.
C14_OnlyThatRowChanges ==
    [][Updated(last') =>
        LET oid == last'.form[1].order_id
        IN  /\ StoreIds(ordersFile') = StoreIds(ordersFile)
            /\ Len(ordersFile') = Len(ordersFile)
            /\ \A i \in 1..Len(ordersFile) :
                IF ordersFile[i].OrderID # oid
                THEN ordersFile'[i] = ordersFile[i]
                ELSE /\ ordersFile'[i].OrderID = oid
                     /\ ordersFile'[i].Warehouse = ordersFile[i].Warehouse
                     /\ ordersFile'[i].OrderDate = ordersFile[i].OrderDate]_vars

---------------------------------------------------------------------------
(* Properties of the stores under interleaved script runs (StepSpec) *)

\* no session stands inside a token generation or an update
Quiescent == \A s \in Sessions : procs[s].pc = "idle"

\* C12: whenever no update is under way, every row of the order store that
\* an update has written (UpdatedBy is set) has a record in the audit log with
\* its order id whose To values are the row's status and invoice number.
C12_StoreChangeIsLogged ==
    Quiescent =>
        \A i \in 1..Len(ordersFile) :
            ordersFile[i].UpdatedBy # "" =>
                \E k \in 1..Len(LogRecords(logFile)) :
                    LET rec == LogRecords(logFile)[k]
                    IN  /\ rec.OrderID = ordersFile[i].OrderID
                        /\ ReadCell(rec.ToStatus) = ReadCell(ordersFile[i].Status)
                        /\ ReadCell(rec.ToInvoice) = ReadCell(ordersFile[i].InvoiceNo)

\* every row of old is in new, at the same position
Preserved(old, new) ==
    /\ Len(old) <= Len(new)
    /\ \A i \in 1..Len(old) : new[i] = old[i]

\* C13: no step removes or changes a row of the token store or of the audit
\* log: every row a file holds, it holds unchanged at the same position after
\* the step.
C13_AppendOnly ==
    [][/\ Preserved(tokensFile.rows, tokensFile'.rows)
       /\ Preserved(logFile.rows, logFile'.rows)]_vars

\* C15: when an update that has written the order store ends, with or without
\* its audit record, load_orders returns the table the store holds.
C15_ReadAfterWrite ==
    [][\A s \in Sessions :
        (procs[s].pc \in {"log_write", "clear"} /\ procs'[s].pc = "idle") =>
            load_orders(ordersCache', ordersFile', now').df = read_csv(ordersFile')]_vars

\* the first row of an existing file is the header h, and no later row is
HeaderOnce(f, h) ==
    f.exists =>
        /\ f.rows # <<>>
        /\ f.rows[1] = h
        /\ \A i \in 2..Len(f.rows) : f.rows[i] # h

\* C16: whenever the audit log or the token store exists, its first row is
\* its header and none of its later rows is a header.
C16_HeaderOnce ==
    /\ HeaderOnce(logFile, LogHeader)
    /\ HeaderOnce(tokensFile, TokenHeader)

---------------------------------------------------------------------------
(* Properties of verify_token over damaged stores (VerifySpec) *)

\* the records of the store with this code
Matching(token) == {i \in 1..Len(TokenRecords) : TokenRecords[i].token = token}

\* C17: a call of verify_token does not raise.  It returns None for an empty
\* or missing code and for a missing store; it returns None when the first
\* record with the code has no expires_at or one that is not a date; and
\* what it returns otherwise is the role, company and email of a record with
\* the code whose expires_at is a date not earlier than now.
C17_FailsClosed ==
    last.kind = "verify" =>
        LET q == last.token_q
        IN  /\ ~last.raised
            /\ (Falsy(q) \/ ~tokensFile.exists) => last.info = <<>>
            /\ (~Falsy(q) /\ Matching(q[1]) # {}
                    /\ ExpiresAt(TokenRecords[First(Matching(q[1]))]) = <<>>)
                => last.info = <<>>
            /\ last.info # <<>> =>
                    \E i \in Matching(q[1]) :
                        /\ ExpiresAt(TokenRecords[i]) # <<>>
                        /\ now <= ExpiresAt(TokenRecords[i])[1]
                        /\ last.info[1] = [role |-> TokenRecords[i].role,
                                           company |-> TokenRecords[i].company,
                                           email |-> TokenRecords[i].email]

\* verify_token was called with a code whose first record in the store ends
\* after the code, and returned None
C17_Witness ==
    /\ last.kind = "verify"
    /\ ~Falsy(last.token_q)
    /\ tokensFile.exists
    /\ Matching(last.token_q[1]) # {}
    /\ TokenRecords[First(Matching(last.token_q[1]))].expires_at = MissingCell
    /\ ~last.raised
    /\ last.info = <<>>

====
